---------------------------- MODULE Spec2Model ----------------------------
(***************************************************************************)
(* Price-Tracking-Bot: the add_product wizard, the products table, the     *)
(* store commands and the price_checker loop of src/bot.py, with the       *)
(* fetch_price_dynamic outcomes of src/tracker.py.                         *)
(*                                                                         *)
(* The bot runs on one asyncio event loop: a coroutine runs without        *)
(* interruption from one await to the next.  Every action below is one     *)
(* such stretch of code; a session's pc names the await it is suspended    *)
(* at.  A message text is a sequence of tokens (a word, or " " for a run   *)
(* of white space); prices are in whole cents.                             *)
(***************************************************************************)
EXTENDS Integers, Sequences, FiniteSets, TLC

VARIABLES
    active_commands,  \* bot.py:65   owner ids holding the add_product lock
    sess,             \* add_product coroutines past the guard, by owner
    products,         \* bot.py:36   rows of the products table, in heap order
    nextId,           \* bot.py:37   next value of the SERIAL id
    chk,              \* check_price coroutines suspended in their fetch
    bot_started,      \* bot.py:66
    ready,            \* on_ready coroutine past its flag, in its greeting
    sched,            \* price_checker loop: pc, scan, position, fetched price
    runNo,            \* number of price_checker iterations started
    fetchLog,         \* history: products whose alert decision was taken
    alerts,           \* the notification channel: alerts delivered
    boot,             \* bot.py:10-56  the module-level start-up statements
    pw                \* tracker.py:25 a fetch_price_dynamic call, its browser

vars == <<active_commands, sess, products, nextId, chk, bot_started, ready,
          sched, runNo, fetchLog, alerts, boot, pw>>

wizVars == <<active_commands, sess>>
schedVars == <<bot_started, ready, sched, runNo, fetchLog, alerts>>
procVars == <<boot, pw>>

----------------------------------------------------------------------------
(* Bounds *)

\* add_product coroutines past the guard, per owner
MaxSess == 2
\* calls of fetch_price_dynamic
MaxFetches == 2
\* rows the wizards of Spec insert (the SERIAL id stops here)
MaxWizId == 1
\* rows the wizards of SpecStore insert
MaxId == 2
\* check_price coroutines in flight
MaxChecks == 1
\* price_checker iterations
MaxRuns == 2

Owners == {1, 2}

----------------------------------------------------------------------------
(* Texts *)

\* a text that is absent: no command, no argument, no answer yet
None == <<>>

\* tracker.py:58,61: fetch_price_dynamic returns None (a page's price is >= 0)
NoPrice == -1

\* selectors.json as loaded at start-up: store -> price selector
selectors == [s \in {<<"walmart.ca">>} |-> ".price"]

\* str.lower() on one token
LowerTok(t) ==
    CASE t = "Mug" -> "mug"
      [] t = "Walmart.CA" -> "walmart.ca"
      [] OTHER -> t

Lower(text) == [i \in 1..Len(text) |-> LowerTok(text[i])]

RECURSIVE LStrip(_)
LStrip(text) ==
    IF text # <<>> /\ Head(text) = " " THEN LStrip(Tail(text)) ELSE text

RECURSIVE RStrip(_)
RStrip(text) ==
    IF text # <<>> /\ text[Len(text)] = " "
    THEN RStrip(SubSeq(text, 1, Len(text) - 1))
    ELSE text

\* str.strip()
Strip(text) == RStrip(LStrip(text))

\* tokens that begin with a match of https?://(?:[-\w.]|(?:%[\da-fA-F]{2}))+
UrlTokens == {"http://a.ca/1", "https://a.ca/2"}

\* re.match anchors at the start of the text only
IsUrl(text) == text # <<>> /\ text[1] \in UrlTokens

\* float() of one token, in cents: <<value>>, or <<>> for a ValueError
NumTok(t) ==
    CASE t = "20" -> <<2000>>
      [] t = "0" -> <<0>>
      [] t = "-5" -> <<-500>>
      [] OTHER -> <<>>

\* float(text): the text must be one number and nothing else
ParseFloat(text) == IF Len(text) = 1 THEN NumTok(text[1]) ELSE <<>>

CommandTokens == {"!add_product", "!check_price", "!remove_product",
                  "!set_target"}

\* the command a message invokes: the prefix and name open the content
CommandOf(text) ==
    IF text # <<>> /\ text[1] \in CommandTokens THEN <<text[1]>> ELSE None

\* the first argument of a command: the word after the white space
ArgOf(text) ==
    IF Len(text) >= 3 /\ text[2] = " " /\ text[3] # " "
    THEN <<text[3]>>
    ELSE None

\* the second argument of a command
Arg2Of(text) ==
    IF ArgOf(text) # None /\ Len(text) >= 5 /\ text[4] = " " /\ text[5] # " "
    THEN <<text[5]>>
    ELSE None

\* name ILIKE pattern: case-insensitive, % matches any string
ILike(name, pattern) ==
    \/ pattern = <<"%">>
    \/ Lower(name) = Lower(pattern)

----------------------------------------------------------------------------
(* The products table *)

Row(id, user_id, store, product_name, url, css_selector, target_price) ==
    [id |-> id, user_id |-> user_id, store |-> store,
     product_name |-> product_name, url |-> url,
     css_selector |-> css_selector, target_price |-> target_price]

\* positions of the rows WHERE user_id = %s AND product_name ILIKE %s
Matching(user_id, pattern) ==
    {i \in 1..Len(products) :
        /\ products[i].user_id = user_id
        /\ ILike(products[i].product_name, pattern)}

RECURSIVE Without(_, _)
\* the rows of a table outside the positions gone, order kept
Without(rows, gone) ==
    IF rows = <<>> THEN <<>>
    ELSE LET rest == Without(SubSeq(rows, 1, Len(rows) - 1), gone)
         IN  IF Len(rows) \in gone THEN rest
             ELSE Append(rest, rows[Len(rows)])

----------------------------------------------------------------------------
(* add_product *)

WaitPcs == {"wait_store", "wait_name", "wait_url", "wait_target"}

SendPcs == {"send_store_prompt", "send_nosel", "send_name_prompt",
            "send_url_prompt", "send_bad_url", "send_target_prompt",
            "send_bad_price", "send_nofetch", "send_confirm", "send_timeout"}

\* the locals of an add_product coroutine past the guard: ctx, answers, and
\* (history) the number of rows it has inserted
NewSession(author, channel) ==
    [pc |-> "send_store_prompt", owner |-> author, channel |-> channel,
     store |-> None, product_name |-> None, url |-> None,
     target_price |-> <<>>, created |-> 0]

\* sess[o]: the live add_product coroutines whose ctx.author.id is o
Sessions == {<<o, k>> : o \in Owners, k \in 1..MaxSess}

Live(o, k) == k <= Len(sess[o])

AlreadyActiveNever(author) == FALSE

\* bot.py:97
AlreadyActive(author) == author \in active_commands

ReleaseNothing(author) == active_commands

\* bot.py:171-172
Release(author) == active_commands \ {author}

checkChannelOnly(r, author, channel) == channel = r.channel

\* bot.py:94-95
check(r, author, channel) == author = r.owner /\ channel = r.channel

\* the code between a wait_for that returned msg and the next await
OnAnswer(r, text) ==
    CASE r.pc = "wait_store" ->
            LET store == Lower(Strip(text))
            IN  IF store \notin DOMAIN selectors
                THEN [r EXCEPT !.pc = "send_nosel"]
                ELSE [r EXCEPT !.pc = "send_name_prompt", !.store = store]
      [] r.pc = "wait_name" ->
            [r EXCEPT !.pc = "send_url_prompt", !.product_name = Strip(text)]
      [] r.pc = "wait_url" ->
            LET url == Strip(text)
            IN  IF ~IsUrl(url)
                THEN [r EXCEPT !.pc = "send_bad_url"]
                ELSE [r EXCEPT !.pc = "send_target_prompt", !.url = url]
      [] r.pc = "wait_target" ->
            LET target_price == ParseFloat(Strip(text))
            IN  IF target_price = <<>>
                THEN [r EXCEPT !.pc = "send_bad_price"]
                ELSE [r EXCEPT !.pc = "fetching",
                               !.target_price = target_price]
      [] OTHER -> r

\* where a send that returned leaves the coroutine; "none": it has returned
AfterSend(pc) ==
    CASE pc = "send_store_prompt" -> "wait_store"
      [] pc = "send_name_prompt" -> "wait_name"
      [] pc = "send_url_prompt" -> "wait_url"
      [] pc = "send_bad_url" -> "send_url_prompt"
      [] pc = "send_target_prompt" -> "wait_target"
      [] pc = "send_bad_price" -> "send_target_prompt"
      [] OTHER -> "none"

OnTimeoutSavePartial(r) ==
    [next |-> [r EXCEPT !.pc = "send_timeout", !.created = @ + 1],
     rows |-> <<Row(nextId, r.owner, r.store, r.product_name, r.url, "", 0)>>]

\* bot.py:168-169: the handler of asyncio.TimeoutError writes no row
OnTimeout(r) ==
    [next |-> [r EXCEPT !.pc = "send_timeout"], rows |-> <<>>]

\* bot.py:97-107: the guard, and an accepted invocation up to its first await
Invoke(author, channel, cur) ==
    IF AlreadyActive(author)
    THEN /\ active_commands' = active_commands
         /\ sess' = cur
    ELSE /\ Len(cur[author]) < MaxSess
         /\ active_commands' = active_commands \cup {author}
         /\ sess' = [cur EXCEPT ![author] =
                        Append(@, NewSession(author, channel))]

\* every wait_for whose check accepts the message returns it
Delivered(author, channel, text) ==
    [o \in Owners |->
        [k \in 1..Len(sess[o]) |->
            IF sess[o][k].pc \in WaitPcs /\ check(sess[o][k], author, channel)
            THEN OnAnswer(sess[o][k], text)
            ELSE sess[o][k]]]

\* a message that is an answer, an !add_product, or both
WizardMessage(author, channel, text) ==
    /\ CommandOf(text) \in {None, <<"!add_product">>}
    /\ IF CommandOf(text) = <<"!add_product">>
       THEN Invoke(author, channel, Delivered(author, channel, text))
       ELSE /\ sess' = Delivered(author, channel, text)
            /\ sess' # sess
            /\ active_commands' = active_commands
    /\ UNCHANGED <<products, nextId, chk, schedVars, procVars>>

\* the finally clause and the coroutine's end
End(o, k) ==
    /\ active_commands' = Release(sess[o][k].owner)
    /\ sess' = [sess EXCEPT ![o] = Without(@, {k})]

\* a ctx.send of the wizard returns
SendDone(o, k) ==
    /\ Live(o, k)
    /\ sess[o][k].pc \in SendPcs
    /\ IF AfterSend(sess[o][k].pc) = "none"
       THEN End(o, k)
       ELSE /\ sess' = [sess EXCEPT ![o][k].pc = AfterSend(@)]
            /\ active_commands' = active_commands
    /\ UNCHANGED <<products, nextId, chk, schedVars, procVars>>

\* a ctx.send of the wizard raises: only the finally clause runs
SendFail(o, k) ==
    /\ Live(o, k)
    /\ sess[o][k].pc \in SendPcs
    /\ End(o, k)
    /\ UNCHANGED <<products, nextId, chk, schedVars, procVars>>

\* bot.py:108,118,124,137: wait_for raises asyncio.TimeoutError
Timeout(o, k) ==
    /\ Live(o, k)
    /\ sess[o][k].pc \in WaitPcs
    /\ LET e == OnTimeout(sess[o][k])
       IN  /\ sess' = [sess EXCEPT ![o][k] = e.next]
           /\ products' = products \o e.rows
           /\ nextId' = nextId + Len(e.rows)
    /\ UNCHANGED <<active_commands, chk, schedVars, procVars>>

\* bot.py:149: "not current_price" is true of None and of 0.0
Falsy(price) == price = NoPrice \/ price = 0

\* bot.py:147-161: the fetch returns and, on a price, the row is inserted;
\* cap bounds the SERIAL id
FetchDone(o, k, current_price, cap) ==
    /\ Live(o, k)
    /\ sess[o][k].pc = "fetching"
    /\ IF Falsy(current_price)
       THEN /\ sess' = [sess EXCEPT ![o][k].pc = "send_nofetch"]
            /\ UNCHANGED <<products, nextId>>
       ELSE /\ nextId <= cap
            /\ products' = Append(products,
                   Row(nextId, sess[o][k].owner, sess[o][k].store,
                       sess[o][k].product_name, sess[o][k].url,
                       selectors[sess[o][k].store],
                       sess[o][k].target_price[1]))
            /\ nextId' = nextId + 1
            /\ sess' = [sess EXCEPT ![o][k].pc = "send_confirm",
                                    ![o][k].created = @ + 1]
    /\ UNCHANGED <<active_commands, chk, schedVars, procVars>>

\* tracker.py:33-34 raises (launch, new_page), or bot.py:154-158 raises
FetchOrSaveFail(o, k) ==
    /\ Live(o, k)
    /\ sess[o][k].pc = "fetching"
    /\ End(o, k)
    /\ UNCHANGED <<products, nextId, chk, schedVars, procVars>>

----------------------------------------------------------------------------
(* check_price and remove_product *)

\* bot.py:177-188: the lookup, and on a row the start of the fetch.  The
\* SELECT has no ORDER BY: fetchone() returns any one of the matching rows.
CheckPriceCmd(author, channel, text) ==
    /\ CommandOf(text) = <<"!check_price">>
    /\ ArgOf(text) # None
    /\ sess' = Delivered(author, channel, text)
    /\ IF Matching(author, ArgOf(text)) = {}
       THEN chk' = chk
       ELSE /\ Len(chk) < MaxChecks
            /\ \E i \in Matching(author, ArgOf(text)) :
                  chk' = Append(chk,
                      [owner |-> author, product_name |-> ArgOf(text),
                       url |-> products[i].url,
                       css_selector |-> products[i].css_selector])
    /\ UNCHANGED <<active_commands, products, nextId, schedVars, procVars>>

\* bot.py:188-193: the fetch returns or raises, the answer is sent
CheckPriceDone(c) ==
    /\ c \in 1..Len(chk)
    /\ chk' = Without(chk, {c})
    /\ UNCHANGED <<active_commands, sess, products, nextId, schedVars, procVars>>

\* bot.py:239-249: DELETE ... WHERE user_id = %s AND product_name ILIKE %s
RemoveProductCmd(author, channel, text) ==
    /\ CommandOf(text) = <<"!remove_product">>
    /\ ArgOf(text) # None
    /\ sess' = Delivered(author, channel, text)
    /\ products' = Without(products, Matching(author, ArgOf(text)))
    /\ UNCHANGED <<active_commands, nextId, chk, schedVars, procVars>>

\* bot.py:219-234: the command runs when target_price converts to a float;
\* UPDATE ... WHERE user_id = %s AND product_name ILIKE %s
SetTargetCmd(author, channel, text) ==
    /\ CommandOf(text) = <<"!set_target">>
    /\ ArgOf(text) # None
    /\ ParseFloat(Arg2Of(text)) # <<>>
    /\ sess' = Delivered(author, channel, text)
    /\ products' =
           [i \in 1..Len(products) |->
               IF i \in Matching(author, ArgOf(text))
               THEN [products[i] EXCEPT
                        !.target_price = ParseFloat(Arg2Of(text))[1]]
               ELSE products[i]]
    /\ UNCHANGED <<active_commands, nextId, chk, schedVars, procVars>>

----------------------------------------------------------------------------
(* on_ready and the price_checker loop *)

\* price_checker before start(): no scan, no product, no fetched price
SchedOff == [pc |-> "off", scan |-> <<>>, i |-> 0, price |-> NoPrice]

AlreadyStartedNever == FALSE

\* bot.py:73: if bot_started
AlreadyStarted == bot_started

\* bot.py:71-75: the flag; bot.py:79-83: the greeting, errors caught
OnReady ==
    /\ ~AlreadyStarted
    /\ bot_started' = TRUE
    /\ ready' = "greeting"
    /\ UNCHANGED <<procVars, wizVars, products, nextId, chk, sched, runNo, fetchLog,
                   alerts>>

\* bot.py:73-74: a later on_ready returns at once
OnReadyAgain ==
    /\ AlreadyStarted
    /\ UNCHANGED vars

\* price_checker.is_running(): the loop's task exists and has not ended
IsRunning == sched.pc \notin {"off", "stopped"}

\* bot.py:85-86: start() runs the first iteration at once
OnReadyStart ==
    /\ ready = "greeting"
    /\ ready' = "done"
    /\ IF ~IsRunning
       THEN /\ runNo < MaxRuns
            /\ sched' = [SchedOff EXCEPT !.pc = "fetch_channel"]
            /\ runNo' = runNo + 1
       ELSE UNCHANGED <<sched, runNo>>
    /\ UNCHANGED <<procVars, wizVars, products, nextId, chk, bot_started, fetchLog,
                   alerts>>

\* bot.py:197: thirty minutes after an iteration began, the next one begins
Trigger ==
    /\ sched.pc = "sleep"
    /\ runNo < MaxRuns
    /\ sched' = [SchedOff EXCEPT !.pc = "fetch_channel"]
    /\ runNo' = runNo + 1
    /\ UNCHANGED <<procVars, wizVars, products, nextId, chk, bot_started, ready,
                   fetchLog, alerts>>

\* the loop after product i: the next product, or the iteration's end
Advance(sc) ==
    IF sc.i < Len(sc.scan)
    THEN [sc EXCEPT !.pc = "fetching", !.i = @ + 1, !.price = NoPrice]
    ELSE [sc EXCEPT !.pc = "sleep", !.price = NoPrice]

\* bot.py:200-205: the channel is fetched, the table is read
ScanProducts ==
    /\ sched.pc = "fetch_channel"
    /\ sched' = Advance([sched EXCEPT !.scan = products, !.i = 0])
    /\ UNCHANGED <<procVars, wizVars, products, nextId, chk, bot_started, ready, runNo,
                   fetchLog, alerts>>

ShouldAlertAnyPrice(product, price) == ~Falsy(price)

\* bot.py:209-214: truthy price, and price < target or price == target
ShouldAlert(product, price) ==
    /\ ~Falsy(price)
    /\ \/ price < product.target_price
       \/ price = product.target_price

Entry(product, price, alert) ==
    [run |-> runNo, id |-> product.id, price |-> price,
     target |-> product.target_price, alert |-> alert]

\* bot.py:207-214: the fetch of product i returns, up to the next await
SchedFetchDone(price) ==
    /\ sched.pc = "fetching"
    /\ LET product == sched.scan[sched.i]
       IN  /\ fetchLog' = fetchLog \cup
                  {Entry(product, price, ShouldAlert(product, price))}
           /\ sched' = IF ShouldAlert(product, price)
                       THEN [sched EXCEPT !.pc = "sending", !.price = price]
                       ELSE Advance(sched)
    /\ UNCHANGED <<procVars, wizVars, products, nextId, chk, bot_started, ready, runNo,
                   alerts>>

\* bot.py:212,214: the alert is delivered
AlertSent ==
    /\ sched.pc = "sending"
    /\ alerts' = alerts \cup
           {[run |-> runNo, id |-> sched.scan[sched.i].id,
             price |-> sched.price]}
    /\ sched' = Advance(sched)
    /\ UNCHANGED <<procVars, wizVars, products, nextId, chk, bot_started, ready, runNo,
                   fetchLog>>

\* An exception leaves price_checker: bot.fetch_channel (bot.py:200) or
\* channel.send (bot.py:212,214) raises, or fetch_price_dynamic raises from
\* its launch or new_page (tracker.py:33-34, outside its try).  tasks.loop
\* runs the body again after a back-off for a connection error, and ends
\* the loop for any other exception.
SchedRaise(then) ==
    /\ sched.pc \in {"fetch_channel", "fetching", "sending"}
    /\ then \in {"sleep", "stopped"}
    /\ sched' = [sched EXCEPT !.pc = then, !.price = NoPrice]
    /\ UNCHANGED <<procVars, wizVars, products, nextId, chk, bot_started, ready, runNo,
                   fetchLog, alerts>>

----------------------------------------------------------------------------
(* Start-up: the module-level statements of bot.py, in order *)

FileStates == {"ok", "missing", "malformed"}

\* bot.py:11: the registry when selectors.json could not be loaded
NoSelectors == [s \in {} |-> ""]

\* what the process finds when it starts: the two files, the two environment
\* variables, and the answer of the database to connect()
Environment ==
    [selectors_json : FileStates, bot_token : BOOLEAN, DATABASE_URL : BOOLEAN,
     connect : {"ok", "error"}, config_json : FileStates]

Booting(env) ==
    [pc |-> "load_selectors", env |-> env, selectors |-> NoSelectors]

\* a process that has reached bot.run
Booted ==
    [pc |-> "running",
     env |-> [selectors_json |-> "ok", bot_token |-> TRUE,
              DATABASE_URL |-> TRUE, connect |-> "ok", config_json |-> "ok"],
     selectors |-> selectors]

\* an exception leaves the module, or exit(1): the process ends
Exit == [boot EXCEPT !.pc = "exited"]

\* bot.py:11-16: FileNotFoundError and JSONDecodeError are caught
LoadSelectors ==
    /\ boot.pc = "load_selectors"
    /\ boot' = [boot EXCEPT !.pc = "read_bot_token",
                            !.selectors = IF boot.env.selectors_json = "ok"
                                          THEN selectors
                                          ELSE NoSelectors]
    /\ UNCHANGED <<wizVars, products, nextId, chk, schedVars, pw>>

\* bot.py:19-21: raise ValueError
ReadBotToken ==
    /\ boot.pc = "read_bot_token"
    /\ boot' = IF boot.env.bot_token
               THEN [boot EXCEPT !.pc = "read_database_url"]
               ELSE Exit
    /\ UNCHANGED <<wizVars, products, nextId, chk, schedVars, pw>>

\* bot.py:24-26: raise ValueError
ReadDatabaseUrl ==
    /\ boot.pc = "read_database_url"
    /\ boot' = IF boot.env.DATABASE_URL
               THEN [boot EXCEPT !.pc = "connect"]
               ELSE Exit
    /\ UNCHANGED <<wizVars, products, nextId, chk, schedVars, pw>>

\* bot.py:29-50: except Exception: exit(1)
Connect ==
    /\ boot.pc = "connect"
    /\ boot' = IF boot.env.connect = "ok"
               THEN [boot EXCEPT !.pc = "load_config"]
               ELSE Exit
    /\ UNCHANGED <<wizVars, products, nextId, chk, schedVars, pw>>

\* bot.py:53-56: open() raises FileNotFoundError, json.load raises
\* JSONDecodeError; neither is caught
LoadConfig ==
    /\ boot.pc = "load_config"
    /\ boot' = IF boot.env.config_json = "ok"
               THEN [boot EXCEPT !.pc = "running"]
               ELSE Exit
    /\ UNCHANGED <<wizVars, products, nextId, chk, schedVars, pw>>

----------------------------------------------------------------------------
(* fetch_price_dynamic: the calls are modelled one after the other, each   *)
(* with its own playwright driver and browser                              *)

\* what text_content() returns: texts of a price element, in tokens
PageTexts == {"$19.99", "0.00", "N/A", "1.2.3"}

\* tracker.py:53: re.sub(r"[^\d\.]", "", price_text).strip()
Cleaned(price_text) ==
    CASE price_text = "$19.99" -> "19.99"
      [] price_text = "0.00" -> "0.00"
      [] price_text = "N/A" -> ""
      [] OTHER -> price_text

\* tracker.py:55: round(float(cleaned_price), 2) in cents; <<>>: ValueError
RoundFloat(cleaned_price) ==
    CASE cleaned_price = "19.99" -> <<1999>>
      [] cleaned_price = "0.00" -> <<0>>
      [] OTHER -> <<>>

\* pc: the await the call is suspended at; browser: none, open or closed;
\* raising: an exception is on its way out of the function; at: the await
\* that raised it; out: how the last call ended; open: browsers that calls
\* which have ended left open; n: calls begun
NoFetch ==
    [pc |-> "idle", selector |-> FALSE, browser |-> "none", raising |-> FALSE,
     at |-> "", result |-> NoPrice, out |-> "", open |-> 0, n |-> 0]

\* the awaits inside the try of tracker.py:36-58
TryPcs == {"set_extra_http_headers", "goto", "wait_for_selector",
           "query_selector", "text_content"}

\* tracker.py:25,32: the call begins and enters async_playwright()
FetchCall(selector) ==
    /\ pw.pc = "idle"
    /\ pw.n < MaxFetches
    /\ pw' = [NoFetch EXCEPT !.pc = "launch", !.selector = selector,
                             !.open = pw.open, !.n = pw.n + 1]
    /\ UNCHANGED <<wizVars, products, nextId, chk, schedVars, boot>>

\* tracker.py:33: chromium.launch returns the browser, or raises
Launch(ok) ==
    /\ pw.pc = "launch"
    /\ pw' = IF ok
             THEN [pw EXCEPT !.pc = "new_page", !.browser = "open"]
             ELSE [pw EXCEPT !.pc = "aexit", !.raising = TRUE, !.at = pw.pc]
    /\ UNCHANGED <<wizVars, products, nextId, chk, schedVars, boot>>

\* tracker.py:34: new_page is before the try: when it raises, the finally
\* of line 62 is not entered
NewPage(ok) ==
    /\ pw.pc = "new_page"
    /\ pw' = IF ok
             THEN [pw EXCEPT !.pc = "set_extra_http_headers"]
             ELSE [pw EXCEPT !.pc = "aexit", !.raising = TRUE, !.at = pw.pc]
    /\ UNCHANGED <<wizVars, products, nextId, chk, schedVars, boot>>

\* tracker.py:38-45: an await that yields no value returns
PageAwait ==
    /\ pw.pc \in {"set_extra_http_headers", "goto", "wait_for_selector"}
    /\ pw' = CASE pw.pc = "set_extra_http_headers" -> [pw EXCEPT !.pc = "goto"]
               [] pw.pc = "goto" /\ pw.selector ->
                      [pw EXCEPT !.pc = "wait_for_selector"]
               [] pw.pc = "goto" /\ ~pw.selector ->
                      [pw EXCEPT !.pc = "close", !.result = NoPrice]
               [] OTHER -> [pw EXCEPT !.pc = "query_selector"]
    /\ UNCHANGED <<wizVars, products, nextId, chk, schedVars, boot>>

\* tracker.py:46-48,57-58: the element, or None
QuerySelector(found) ==
    /\ pw.pc = "query_selector"
    /\ pw' = IF found
             THEN [pw EXCEPT !.pc = "text_content"]
             ELSE [pw EXCEPT !.pc = "close", !.result = NoPrice]
    /\ UNCHANGED <<wizVars, products, nextId, chk, schedVars, boot>>

\* tracker.py:49-61: the text is cleaned and converted; the ValueError of
\* float() is caught by the except of line 59
TextContent(price_text) ==
    /\ pw.pc = "text_content"
    /\ LET cleaned_price == Cleaned(price_text)
           price == RoundFloat(cleaned_price)
       IN  pw' = IF cleaned_price # "" /\ price # <<>>
                 THEN [pw EXCEPT !.pc = "close", !.result = price[1]]
                 ELSE [pw EXCEPT !.pc = "close", !.result = NoPrice]
    /\ UNCHANGED <<wizVars, products, nextId, chk, schedVars, boot>>

\* an await inside the try raises: an Exception (a timeout, a navigation
\* error) is caught at tracker.py:59-61; any other BaseException (the task
\* is cancelled) goes on after the finally
PageRaise(caught) ==
    /\ pw.pc \in TryPcs
    /\ pw' = [pw EXCEPT !.pc = "close", !.result = NoPrice, !.at = pw.pc,
                        !.raising = ~caught]
    /\ UNCHANGED <<wizVars, products, nextId, chk, schedVars, boot>>

\* tracker.py:62-63: finally: await browser.close()
BrowserClose ==
    /\ pw.pc = "close"
    /\ pw' = [pw EXCEPT !.pc = "aexit", !.browser = "closed"]
    /\ UNCHANGED <<wizVars, products, nextId, chk, schedVars, boot>>

DriverStopLeaves(browser) == browser

\* tracker.py:32: leaving the async with stops the playwright driver, and
\* the driver on its way out shuts down the browsers it launched
DriverStop(browser) == IF browser = "open" THEN "closed" ELSE browser

\* tracker.py:32: the end of the async with block, on a return and on an
\* exception alike; the call is over
PlaywrightExit ==
    /\ pw.pc = "aexit"
    /\ pw' = [pw EXCEPT !.pc = "idle",
                        !.browser = DriverStop(pw.browser),
                        !.out = IF pw.raising THEN "raised" ELSE "returned",
                        !.open = IF DriverStop(pw.browser) = "open"
                                 THEN @ + 1 ELSE @]
    /\ UNCHANGED <<wizVars, products, nextId, chk, schedVars, boot>>

----------------------------------------------------------------------------
(* Specification of the wizard: two owners in one channel *)

Init ==
    /\ active_commands = {}
    /\ sess = [o \in Owners |-> <<>>]
    /\ products = <<>>
    /\ nextId = 1
    /\ chk = <<>>
    /\ bot_started = FALSE
    /\ ready = "none"
    /\ sched = SchedOff
    /\ runNo = 0
    /\ fetchLog = {}
    /\ alerts = {}
    /\ boot = Booted
    /\ pw = NoFetch

WizTexts == {<<"walmart.ca">>, <<"http://a.ca/1">>, <<"20">>,
             <<"!add_product">>}

\* what a wizard's fetch returns: None, or the price on the page
WizPrices == {NoPrice, 0, 1999}

Next ==
    \/ \E o \in Owners, t \in WizTexts : WizardMessage(o, "c1", t)
    \/ \E x \in Sessions : SendDone(x[1], x[2])
    \/ \E x \in Sessions : SendFail(x[1], x[2])
    \/ \E x \in Sessions : Timeout(x[1], x[2])
    \/ \E x \in Sessions, p \in WizPrices : FetchDone(x[1], x[2], p, MaxWizId)
    \/ \E x \in Sessions : FetchOrSaveFail(x[1], x[2])

Spec == Init /\ [][Next]_vars

----------------------------------------------------------------------------
(* Specification of the wizard in two channels *)

Channels == {"c1", "c2"}

ChannelTexts == {<<"walmart.ca">>, <<"http://a.ca/1">>, <<"!add_product">>}

NextChannels ==
    \/ \E o \in Owners, ch \in Channels, t \in ChannelTexts :
          WizardMessage(o, ch, t)
    \/ \E x \in Sessions : SendDone(x[1], x[2])
    \/ \E x \in Sessions : Timeout(x[1], x[2])

SpecChannels == Init /\ [][NextChannels]_vars

----------------------------------------------------------------------------
(* Specification of the store: owner 1 adds products in channel c1; both  *)
(* owners look products up and remove them in channel c2                  *)

StoreTexts == {<<"walmart.ca">>, <<"Mug">>, <<"mug">>, <<"http://a.ca/1">>,
               <<"https://a.ca/2">>, <<"20">>, <<"-5">>, <<"!add_product">>}

CheckTexts == {<<"!check_price", " ", n>> : n \in {"Mug", "mug"}}

RemoveTexts == {<<"!remove_product", " ", n>> : n \in {"Mug", "mug", "%"}}

SetTexts == {<<"!set_target", " ", n, " ", "-5">> : n \in {"Mug", "mug"}}

NextStore ==
    \/ \E t \in StoreTexts : WizardMessage(1, "c1", t)
    \/ SendDone(1, 1)
    \/ Timeout(1, 1)
    \/ FetchDone(1, 1, 1999, MaxId)
    \/ \E o \in Owners, t \in CheckTexts : CheckPriceCmd(o, "c2", t)
    \/ \E c \in 1..MaxChecks : CheckPriceDone(c)
    \/ \E o \in Owners, t \in RemoveTexts : RemoveProductCmd(o, "c2", t)
    \/ \E o \in Owners, t \in SetTexts : SetTargetCmd(o, "c2", t)

SpecStore == Init /\ [][NextStore]_vars

----------------------------------------------------------------------------
(* Specification of the scheduler: the process starts over a table that   *)
(* earlier wizards filled                                                  *)

SchedTables ==
    LET mug == Row(1, 1, <<"walmart.ca">>, <<"Mug">>, <<"http://a.ca/1">>,
                   ".price", 2000)
        pen == Row(2, 2, <<"walmart.ca">>, <<"mug">>, <<"https://a.ca/2">>,
                   ".price", 0)
    IN  {<<mug>>, <<mug, pen>>}

\* what the page of a product shows in a run, in cents; NoPrice: no price
SchedPrices == {NoPrice, 0, 1999, 2000, 2001}

InitSched ==
    /\ active_commands = {}
    /\ sess = [o \in Owners |-> <<>>]
    /\ products \in SchedTables
    /\ nextId = Len(products) + 1
    /\ chk = <<>>
    /\ bot_started = FALSE
    /\ ready = "none"
    /\ sched = SchedOff
    /\ runNo = 0
    /\ fetchLog = {}
    /\ alerts = {}
    /\ boot = Booted
    /\ pw = NoFetch

NextSched ==
    \/ OnReady
    \/ OnReadyAgain
    \/ OnReadyStart
    \/ Trigger
    \/ ScanProducts
    \/ \E p \in SchedPrices : SchedFetchDone(p)
    \/ AlertSent
    \/ \E then \in {"sleep", "stopped"} : SchedRaise(then)

SpecSched == InitSched /\ [][NextSched]_vars

----------------------------------------------------------------------------
(* Specification of the scheduler while owners remove products and set     *)
(* targets                                                                 *)

\* what a page shows during the race: no price, or 19.99
RacePrices == {NoPrice, 1999}

NextRace ==
    \/ OnReady
    \/ OnReadyStart
    \/ Trigger
    \/ ScanProducts
    \/ \E p \in RacePrices : SchedFetchDone(p)
    \/ AlertSent
    \/ SchedRaise("sleep")
    \/ RemoveProductCmd(1, "c2", <<"!remove_product", " ", "Mug">>)
    \/ SetTargetCmd(1, "c2", <<"!set_target", " ", "Mug", " ", "-5">>)

SpecRace == InitSched /\ [][NextRace]_vars

----------------------------------------------------------------------------
(* Specification of the start-up, over every environment *)

InitBoot ==
    /\ active_commands = {}
    /\ sess = [o \in Owners |-> <<>>]
    /\ products = <<>>
    /\ nextId = 1
    /\ chk = <<>>
    /\ bot_started = FALSE
    /\ ready = "none"
    /\ sched = SchedOff
    /\ runNo = 0
    /\ fetchLog = {}
    /\ alerts = {}
    /\ boot \in {Booting(env) : env \in Environment}
    /\ pw = NoFetch

NextBoot ==
    \/ LoadSelectors
    \/ ReadBotToken
    \/ ReadDatabaseUrl
    \/ Connect
    \/ LoadConfig

SpecBoot == InitBoot /\ [][NextBoot]_vars

----------------------------------------------------------------------------
(* Specification of fetch_price_dynamic *)

NextFetch ==
    \/ \E selector \in BOOLEAN : FetchCall(selector)
    \/ \E ok \in BOOLEAN : Launch(ok)
    \/ \E ok \in BOOLEAN : NewPage(ok)
    \/ PageAwait
    \/ \E found \in BOOLEAN : QuerySelector(found)
    \/ \E price_text \in PageTexts : TextContent(price_text)
    \/ \E caught \in BOOLEAN : PageRaise(caught)
    \/ BrowserClose
    \/ PlaywrightExit

SpecFetch == Init /\ [][NextFetch]_vars

----------------------------------------------------------------------------
(* Claims about the wizard, checked under Spec *)

\* C1: in every reachable state each owner has at most one add_product
\* coroutine past the guard.
C1_OneSessionPerOwner == \A o \in Owners : Len(sess[o]) <= 1

\* Both owners are in a wizard at once, one of them in its fetch.
C1_Witness ==
    /\ \A o \in Owners : Len(sess[o]) = 1 /\ o \in active_commands
    /\ \E o \in Owners : sess[o][1].pc = "fetching"

\* C2: an !add_product sent by an owner who holds the lock is rejected and
\* leaves the active session (step, answers, lock) as it was.
C2_RejectedStartLeavesSession ==
    [][\A o \in Owners :
          (o \in active_commands /\ WizardMessage(o, "c1", <<"!add_product">>))
              => UNCHANGED <<sess, active_commands>>]_vars

\* C3: a session whose wait_for timed out (Cancelled) has inserted no row,
\* whatever steps it had answered.
C3_TimeoutCreatesNothing ==
    \A x \in Sessions :
        (Live(x[1], x[2]) /\ sess[x[1]][x[2]].pc = "send_timeout")
            => sess[x[1]][x[2]].created = 0

\* A session that answered Store, Name and Url and timed out in Target.
C3_Witness ==
    \E x \in Sessions :
        /\ Live(x[1], x[2])
        /\ sess[x[1]][x[2]].pc = "send_timeout"
        /\ sess[x[1]][x[2]].url # None

\* C4: the lock is held only for a live session: once a session has ended,
\* on whichever path, its owner is not in active_commands (so the guard
\* accepts the owner's next invocation).
C4_LockReleasedAtEnd ==
    /\ [](\A o \in Owners : o \in active_commands => sess[o] # <<>>)
    /\ [][\A o \in Owners :
            (sess[o] = <<>> /\ WizardMessage(o, "c1", <<"!add_product">>))
                => (Len(sess'[o]) = 1 /\ o \in active_commands')]_vars

\* A session ran to its confirmation and ended: its row is there, its owner
\* has no session and no lock.
C4_Witness ==
    /\ products # <<>>
    /\ sess[products[1].user_id] = <<>>
    /\ products[1].user_id \notin active_commands

----------------------------------------------------------------------------
(* Claims about the scheduler, checked under SpecSched *)

\* C5: for every product and every fetched price, zero included, the run
\* sends an alert for the product if and only if price <= target_price.
C5_AlertIffAtOrBelowTarget ==
    \A e \in fetchLog :
        e.price # NoPrice => (e.alert <=> e.price <= e.target)

\* C6: a product fetched in two runs at the same price, at or below the same
\* target, is alerted in both runs.
C6_AlertRepeatsEveryRun ==
    \A e1 \in fetchLog : \A e2 \in fetchLog :
        ( /\ e1.id = e2.id /\ e1.run < e2.run
          /\ e1.price # NoPrice /\ e1.price = e2.price
          /\ e1.target = e2.target /\ e1.price <= e1.target )
            => (e1.alert /\ e2.alert)

\* C7: when an iteration is over, every product of its scan other than the
\* one it was at has been fetched and its alert decided.
C7_FailureNeverAbortsRun ==
    sched.pc \in {"sleep", "stopped"} =>
        \A j \in 1..Len(sched.scan) :
            j # sched.i =>
                \E e \in fetchLog : e.run = runNo /\ e.id = sched.scan[j].id

----------------------------------------------------------------------------
(* Claims about the store, checked under SpecStore *)

\* C8: the table never holds two rows with the same (user_id, product_name).
C8_NameUniquePerOwner ==
    \A i \in 1..Len(products) : \A j \in 1..Len(products) :
        ( /\ i # j
          /\ products[i].user_id = products[j].user_id )
            => products[i].product_name # products[j].product_name

\* the rows keyed exactly (user_id, product_name)
Keyed(user_id, product_name) ==
    {i \in 1..Len(products) :
        /\ products[i].user_id = user_id
        /\ products[i].product_name = product_name}

\* C9: the lookup of check_price for a name the owner has created returns
\* the url and selector stored in a record of that name.
C9_GetReturnsOwnRecord ==
    [][\A o \in Owners : \A t \in CheckTexts :
          (CheckPriceCmd(o, "c2", t) /\ Keyed(o, ArgOf(t)) # {})
              => /\ Len(chk') = Len(chk) + 1
                 /\ \E i \in Keyed(o, ArgOf(t)) :
                       /\ chk'[Len(chk')].url = products[i].url
                       /\ chk'[Len(chk')].css_selector
                              = products[i].css_selector]_vars

\* C10: remove_product leaves the table unchanged when the owner has no
\* record of that name, and otherwise removes exactly one record, one keyed
\* (owner, name).
C10_RemoveExactlyTheRecord ==
    [][\A o \in Owners : \A t \in RemoveTexts :
          RemoveProductCmd(o, "c2", t)
              => IF Keyed(o, ArgOf(t)) = {}
                 THEN products' = products
                 ELSE \E i \in Keyed(o, ArgOf(t)) :
                         products' = Without(products, {i})]_vars

\* C11: set_target leaves the table unchanged when the owner has no record
\* of that name, and otherwise changes only the target_price of one record
\* keyed (owner, name).
C11_SetTargetOnlyTheRecord ==
    [][\A o \in Owners : \A t \in SetTexts :
          SetTargetCmd(o, "c2", t)
              => IF Keyed(o, ArgOf(t)) = {}
                 THEN products' = products
                 ELSE \E i \in Keyed(o, ArgOf(t)) :
                         products' = [products EXCEPT ![i].target_price =
                                         ParseFloat(Arg2Of(t))[1]]]_vars

\* C12: a fetch that returns no price ends the wizard with no row; a fetch
\* that returns any price, zero included, inserts exactly one row holding the
\* owner's id and the store, name, url, selector and target collected.
C12_AnyPriceCompletes ==
    [][\A x \in Sessions : \A p \in WizPrices :
          FetchDone(x[1], x[2], p, MaxWizId)
              => LET r == sess[x[1]][x[2]]
                 IN  IF p = NoPrice
                     THEN /\ products' = products
                          /\ sess'[x[1]][x[2]].pc = "send_nofetch"
                     ELSE /\ products' = Append(products,
                                 Row(nextId, x[1], r.store, r.product_name,
                                     r.url, selectors[r.store],
                                     r.target_price[1]))
                          /\ sess'[x[1]][x[2]].pc = "send_confirm"]_vars

\* C13: after a store answer that is not in the registry the coroutine is
\* still live, holds its owner's lock and goes back to asking for the store.
C13_UnknownStoreReprompts ==
    [][\A x \in Sessions :
          (/\ Live(x[1], x[2])
           /\ sess[x[1]][x[2]].pc = "send_nosel"
           /\ SendDone(x[1], x[2]))
              => /\ Len(sess'[x[1]]) = Len(sess[x[1]])
                 /\ sess'[x[1]][x[2]].pc \in {"send_store_prompt", "wait_store"}
                 /\ x[1] \in active_commands']_vars

\* C14: every row of the table has a target_price that is not negative.
C14_TargetNeverNegative ==
    \A i \in 1..Len(products) : products[i].target_price >= 0

\* the await an iteration of price_checker is suspended at
RunPcs == {"fetch_channel", "fetching", "sending"}

\* C15: an iteration of price_checker begins only when no iteration is in
\* progress, and on_ready starts the loop only when it was never started.
C15_NeverReentered ==
    [][/\ runNo' # runNo => sched.pc \notin RunPcs
       /\ (ready = "greeting" /\ ready' = "done" /\ runNo' # runNo)
              => sched.pc = "off"]_vars

\* the second iteration is in progress after on_ready has come and gone
C15_Witness ==
    /\ bot_started
    /\ ready = "done"
    /\ runNo = MaxRuns
    /\ sched.pc \in RunPcs

\* C16: the start-up ends the process for no state of selectors.json or of
\* config.json: a process that has exited had no DATABASE_URL (or had no
\* bot_token, or the database refused the connection); and after a failed
\* load of selectors.json no store is in the registry.
C16_OnlyDatabaseUrlIsFatal ==
    /\ boot.pc = "exited"
          => \/ ~boot.env.DATABASE_URL
             \/ ~boot.env.bot_token
             \/ boot.env.connect = "error"
    /\ (boot.pc # "load_selectors" /\ boot.env.selectors_json # "ok")
          => DOMAIN boot.selectors = {}

C18_OwnersIndependent ==
    [][/\ \A b \in Owners : \A ch \in Channels : \A t \in ChannelTexts :
             WizardMessage(b, ch, t)
                => /\ \A a \in Owners \ {b} :
                         /\ sess'[a] = sess[a]
                         /\ (a \in active_commands') = (a \in active_commands)
                   /\ \A k \in 1..Len(sess[b]) :
                         sess[b][k].channel # ch => sess'[b][k] = sess[b][k]
                   /\ (t = <<"!add_product">> /\ b \notin active_commands)
                         => /\ Len(sess'[b]) = Len(sess[b]) + 1
                            /\ b \in active_commands'
       /\ \A b \in Owners :
             (b \in active_commands /\ b \notin active_commands')
                => Len(sess'[b]) < Len(sess[b])]_vars

\* both owners hold the lock, each in a channel of their own, and owner 1
\* has answered two prompts while owner 2 still waits at the first
C18_Witness ==
    /\ active_commands = Owners
    /\ Len(sess[1]) = 1 /\ Len(sess[2]) = 1
    /\ sess[1][1].channel # sess[2][1].channel
    /\ sess[1][1].pc = "wait_url"
    /\ sess[2][1].pc = "wait_store"

\* C19 as stated: when price_checker decides to send an alert, the product
\* is a row of the table at that moment and the fetched price is at most the
\* target_price that row holds at that moment.
C19_AlertConcernsStoredProduct ==
    [][\A price \in RacePrices :
          (SchedFetchDone(price) /\ sched'.pc = "sending")
              => \E i \in 1..Len(products) :
                    /\ products[i].id = sched.scan[sched.i].id
                    /\ price <= products[i].target_price]_vars

\* C19 as the code has it: every alert concerns a row that the run read at
\* its start, and the fetched price is at most the target_price that the run
\* read for it.
C19_AlertConcernsScannedProduct ==
    /\ \A a \in alerts :
          \E e \in fetchLog :
             /\ e.run = a.run /\ e.id = a.id /\ e.price = a.price
             /\ e.price <= e.target
    /\ sched.pc = "sending"
          => sched.price <= sched.scan[sched.i].target_price

\* an alert of the current run is out for a product that is no longer in
\* the table
C19_Witness ==
    \E a \in alerts :
       /\ a.run = runNo
       /\ \A i \in 1..Len(products) : products[i].id # a.id

=============================================================================
